---- MODULE Spec2Model ----
(***************************************************************************)
(* The single-owner DAWG builder of src/src/dawg/unsync.rs as a state      *)
(* machine: add / finish mutate the builder, is_word / lookup read it.     *)
(*                                                                         *)
(* A Rust String is valid UTF-8, so it is modelled as the sequence of its  *)
(* Unicode scalar values; its byte length (String::len) is ByteLen.        *)
(* A transition label is a one-character String and is modelled as that    *)
(* character.  A node reference (Rc<RefCell<DawgNode>>) is the node's id;  *)
(* `nodes` holds exactly the nodes whose strong count is positive.         *)
(*                                                                         *)
(* The thread-shared builder of src/src/dawg/sync.rs is the variable sync, *)
(* a record of the same fields with Arc<Mutex<DawgNode>> for a node.       *)
(***************************************************************************)
EXTENDS Integers, Sequences, FiniteSets, TLC

VARIABLES nodes, minimized_nodes, unchecked_nodes, previous_word, next_id,
          added, finished, late, outcome, sync

vars == <<nodes, minimized_nodes, unchecked_nodes, previous_word, next_id,
          added, finished, late, outcome, sync>>

\* the fields of struct Dawg (the root is the field `root`, always node 0)
dawg == <<nodes, minimized_nodes, unchecked_nodes, previous_word, next_id>>

(***************************************************************************)
(* Bounds of the model.                                                    *)
(***************************************************************************)
\* longest word handed to add
MaxLen == 2
\* number of nodes add creates in one run
MaxNodes == 5
\* the same, in the wider runs that only search for a violation
WideNodes == 7
\* number of words add accepts after finish in one run
MaxLate == 1

\* longest word handed to add in the runs on long words: one more than fits
\* the 8-bit index arithmetic of minimize
MaxLong == 129
\* number of nodes add creates in one run on long words
LongNodes == 260

\* 'A', 'a' (one byte each) and U+00E9 (two bytes in UTF-8)
Alphabet == {65, 97, 233}

RECURSIVE StringsUpTo(_, _)
StringsUpTo(alpha, n) ==
    IF n = 0 THEN {<<>>}
    ELSE LET shorter == StringsUpTo(alpha, n - 1)
         IN  shorter \cup {Append(s, c) : s \in {t \in shorter : Len(t) = n - 1}, c \in alpha}

\* the words a caller may hand to add (the empty word included)
Words == StringsUpTo(Alphabet, MaxLen)

\* the character c, n times
Repeat(c, n) == [i \in 1..n |-> c]

\* the words handed to add in the runs on long words
LongWords ==
    {<<65>>, <<97>>, <<233>>}
    \cup {Repeat(65, MaxLong - 1), Repeat(65, MaxLong), Repeat(97, MaxLong - 1)}
    \cup {Append(Repeat(65, MaxLong), 97), Append(Repeat(65, MaxLong), 233)}

(***************************************************************************)
(* Strings.                                                                *)
(***************************************************************************)
\* bytes of one scalar value in UTF-8
Utf8Len(c) == IF c < 128 THEN 1 ELSE IF c < 2048 THEN 2 ELSE IF c < 65536 THEN 3 ELSE 4

RECURSIVE ByteLen(_)
\* String::len: the length in bytes
ByteLen(s) == IF s = <<>> THEN 0 ELSE Utf8Len(Head(s)) + ByteLen(Tail(s))

\* str::to_uppercase on the characters of the model (each maps to one character)
Upper(c) == IF c >= 97 /\ c <= 122 THEN c - 32 ELSE IF c = 233 THEN 201 ELSE c

\* s.split_terminator("").skip(1): one one-character string per scalar value
split_to_vec(s) == [i \in 1..Len(s) |-> s[i]]

\* Ord for String: lexicographic on bytes, which for UTF-8 is lexicographic
\* on scalar values: decided at the first position where the two differ,
\* by the lengths when there is none; -1 less, 0 equal, 1 greater
StrCmp(a, b) ==
    LET m     == IF Len(a) < Len(b) THEN Len(a) ELSE Len(b)
        diffs == {i \in 1..m : a[i] # b[i]}
    IN  IF diffs = {}
        THEN IF Len(a) < Len(b) THEN -1 ELSE IF Len(a) > Len(b) THEN 1 ELSE 0
        ELSE LET i == CHOOSE d \in diffs : \A e \in diffs : d <= e
             IN  IF a[i] < b[i] THEN -1 ELSE 1

RECURSIVE DecStr(_)
\* usize::to_string: decimal digits, most significant first
DecStr(n) == IF n < 10 THEN <<48 + n>> ELSE Append(DecStr(n \div 10), 48 + (n % 10))

RECURSIVE Join(_)
\* arr.join("_")
Join(arr) ==
    IF arr = <<>> THEN <<>>
    ELSE IF Len(arr) = 1 THEN arr[1]
    ELSE arr[1] \o <<95>> \o Join(Tail(arr))

\* every order in which a HashMap holding the keys ks may be iterated
IterOrders(ks) ==
    {o \in [1..Cardinality(ks) -> ks] : \A i, j \in 1..Cardinality(ks) : i # j => o[i] # o[j]}

(***************************************************************************)
(* Nodes.                                                                  *)
(***************************************************************************)
root == 0

NoEdges == [k \in {} |-> 0]

\* DawgNode::new
NewNode(id) == [id |-> id, terminal |-> FALSE, edges |-> NoEdges, count |-> 0]

\* HashMap::insert on a node's edges
EdgesInsert(e, k, v) == (k :> v) @@ e

\* HashMap::insert on the registry
RegistryInsert(m, k, v) == (k :> v) @@ m

\* Display for DawgNode, iterating the edges in the order o
SignatureIn(n, o) ==
    Join(<<IF n.terminal THEN <<49>> ELSE <<48>> >>
         \o [i \in 1..(2 * Len(o)) |->
                IF i % 2 = 1 THEN DecStr(n.edges[o[(i + 1) \div 2]])
                ELSE <<o[i \div 2]>>])

\* the strings to_string may return for a node: one per iteration order
Signatures(n) == {SignatureIn(n, o) : o \in IterOrders(DOMAIN n.edges)}

\* the nodes of S and the nodes their edges point to
Kids(ns, S) == S \cup UNION {{ns[n].edges[k] : k \in DOMAIN ns[n].edges} : n \in S}

RECURSIVE ReachIter(_, _, _)
\* Kids applied 2^k times to S, or until nothing is added
ReachIter(ns, S, k) ==
    IF k = 0 THEN Kids(ns, S)
    ELSE LET h == ReachIter(ns, S, k - 1)
         IN  IF h = S THEN S ELSE ReachIter(ns, h, k - 1)

RECURSIVE ReachUpTo(_, _, _)
ReachUpTo(ns, S, k) ==
    LET h == ReachIter(ns, S, k)
    IN  IF Kids(ns, h) = h THEN h ELSE ReachUpTo(ns, h, k + 1)

\* the nodes that can be reached from seen \cup todo along the edges
ReachFrom(ns, seen, todo) == ReachUpTo(ns, seen \cup todo, 0)

Range(f) == {f[x] : x \in DOMAIN f}

\* the nodes some Rc still points to: from the root, the registry, the frontier
Live(ns, reg, fr) ==
    ReachFrom(ns, {}, {root} \cup Range(reg)
                      \cup {fr[i].parent : i \in DOMAIN fr} \cup {fr[i].child : i \in DOMAIN fr})

\* dropping the last Rc frees the node
Collect(ns, reg, fr) == [n \in Live(ns, reg, fr) |-> ns[n]]

\* Rc::strong_count of node n
StrongCount(ns, reg, fr, n) ==
    Cardinality({<<p, k>> \in {<<q, l>> \in (DOMAIN ns) \X Alphabet : l \in DOMAIN ns[q].edges} :
                    ns[p].edges[k] = n})
    + Cardinality({s \in DOMAIN reg : reg[s] = n})
    + Cardinality({i \in DOMAIN fr : fr[i].parent = n})
    + Cardinality({i \in DOMAIN fr : fr[i].child = n})
    + (IF n = root THEN 1 ELSE 0)

(***************************************************************************)
(* The builder.  A builder value is a record of the fields of struct Dawg  *)
(* that add and finish change while they run.                              *)
(***************************************************************************)
NoRegistry == [s \in {} |-> 0]

\* failure is "none" while the call runs on, or the panic that ended it
Builder(ns, reg, fr, id) ==
    [nodes |-> ns, minimized_nodes |-> reg, unchecked_nodes |-> fr, next_id |-> id,
     failure |-> "none"]

\* the builder as a panic leaves it
Failed(b, panic) == [b EXCEPT !.failure = panic]

\* a value of type i8 after wrapping arithmetic
WrapI8(x) == ((x + 128) % 256) - 128

\* `n as i8` for a usize n
ToI8(n) == WrapI8(n)

\* minimize with the registry never consulted: every child is registered
\* and no parent is redirected
MinimizeStep_NoMerge(b, i, sig) ==
    LET tri  == b.unchecked_nodes[i + 1]
        reg1 == RegistryInsert(b.minimized_nodes, sig, tri.child)
        fr1  == SubSeq(b.unchecked_nodes, 1, Len(b.unchecked_nodes) - 1)
    IN  Builder(Collect(b.nodes, reg1, fr1), reg1, fr1, b.next_id)

\* one turn of the loop of minimize on entry i, the child's to_string being
\* sig.  pop() drops the Rcs of the last entry; a node is freed only when an
\* edge was redirected or the popped entry held the last Rc to a node.
MinimizeStep(b, i, sig) ==
    LET fr     == b.unchecked_nodes
        tri    == fr[i + 1]
        exists == sig \in DOMAIN b.minimized_nodes
        ns1    == IF exists
                  THEN [b.nodes EXCEPT ![tri.parent].edges =
                            EdgesInsert(@, tri.letter, b.minimized_nodes[sig])]
                  ELSE b.nodes
        reg1   == IF exists THEN b.minimized_nodes
                  ELSE RegistryInsert(b.minimized_nodes, sig, tri.child)
        fr1    == SubSeq(fr, 1, Len(fr) - 1)
        held   == /\ ~exists
                  /\ i + 1 = Len(fr)
                  /\ \/ tri.parent = root
                     \/ \E j \in DOMAIN fr1 : tri.parent \in {fr1[j].parent, fr1[j].child}
    IN  Builder(IF held THEN ns1 ELSE Collect(ns1, reg1, fr1), reg1, fr1, b.next_id)

\* the turn of the loop whose index is start, from each builder of bs
MinimizeTurn(bs, start) ==
    UNION {IF b.failure # "none" THEN {b}
           ELSE IF start < 0 \/ start >= Len(b.unchecked_nodes)
           THEN \* self.unchecked_nodes[start as usize]: index out of bounds
                {Failed(b, "index_panic")}
           ELSE {MinimizeStep(b, start, sig) :
                    sig \in Signatures(b.nodes[b.unchecked_nodes[start + 1].child])} :
           b \in bs}

RECURSIVE MinimizeLoop(_, _, _)
\* while start > end { ... start -= 1 }: the builders the loop may end in,
\* from the builders bs.  The turns start, start - 1, .., end + 1 run in this
\* order; they are evaluated as an upper and a lower half.
MinimizeLoop(bs, start, end) ==
    IF ~(start > end) THEN bs
    ELSE IF start - end = 1 THEN MinimizeTurn(bs, start)
    ELSE LET mid   == end + ((start - end) \div 2)
             upper == MinimizeLoop(bs, start, mid)
         IN  IF upper = {} THEN {} ELSE MinimizeLoop(upper, mid, end)

\* `n as i8 - 1`: the value of start (of end, for down_to) where it wraps
MinusOneI8(n) == WrapI8(ToI8(n) - 1)

\* `n as i8 - 1` leaves the range of i8: a panic where overflow checks are
\* compiled in (debug profile), a wrap where they are not (release profile)
Overflows(n) == ToI8(n) - 1 < -128

\* Dawg::minimize: the builders the call may end in, over both profiles
minimize(b, down_to) ==
    (IF Overflows(Len(b.unchecked_nodes)) \/ Overflows(down_to)
     THEN {Failed(b, "overflow_panic")} ELSE {})
    \cup MinimizeLoop({b}, MinusOneI8(Len(b.unchecked_nodes)), MinusOneI8(down_to))

\* add with the ordering guard left out
OrderViolation_Never(prev, word) == FALSE

\* the guard of add: previous_word > word
OrderViolation(prev, word) == StrCmp(prev, word) = 1

\* the loop that counts common_prefix, from the 0-based index: it stops at
\* the first index where the two words differ, or at min_length
CommonPrefixFrom(word_vec, prev_word_vec, index) ==
    LET min_length == IF Len(word_vec) < Len(prev_word_vec) THEN Len(word_vec)
                      ELSE Len(prev_word_vec)
        breaks     == {i \in index..(min_length - 1) : word_vec[i + 1] # prev_word_vec[i + 1]}
    IN  IF breaks # {} THEN CHOOSE i \in breaks : \A k \in breaks : i <= k
        ELSE IF index >= min_length THEN index
        ELSE min_length

\* add with common_prefix never counted, as add_sync has it
CommonPrefix_Zero(word_vec, prev_word_vec) == 0

CommonPrefix(word_vec, prev_word_vec) == CommonPrefixFrom(word_vec, prev_word_vec, 0)

\* the letters the loop `for index in common_prefix..word_vec.len()` visits
NewLetters(word_vec, common_prefix) == SubSeq(word_vec, common_prefix + 1, Len(word_vec))

\* one turn of that loop: a new node under the frontier tip (the root if none)
AddLetter(b, letter) ==
    LET fr        == b.unchecked_nodes
        node      == IF Len(fr) # 0 THEN fr[Len(fr)].child ELSE root
        next_node == b.next_id
        ns1       == [x \in (DOMAIN b.nodes) \cup {next_node} |->
                        IF x = next_node THEN NewNode(next_node)
                        ELSE IF x = node
                        THEN [b.nodes[x] EXCEPT !.edges = EdgesInsert(@, letter, next_node)]
                        ELSE b.nodes[x]]
        fr1       == Append(fr, [parent |-> node, letter |-> letter, child |-> next_node])
    IN  \* an edge already under this letter is overwritten and its Rc dropped
        Builder(IF letter \in DOMAIN b.nodes[node].edges
                THEN Collect(ns1, b.minimized_nodes, fr1) ELSE ns1,
                b.minimized_nodes, fr1, next_node + 1)

\* the loop `for index in common_prefix..word_vec.len()`.  After its first
\* turn, turn j hangs node next_id + j - 1 under the node of turn j - 1,
\* which has no edge yet, so that nothing is overwritten or freed.
AddLetters(b, letters) ==
    IF letters = <<>> THEN b
    ELSE LET b1     == AddLetter(b, letters[1])
             id(j)  == b.next_id + j - 1
             made   == {id(j) : j \in 2..Len(letters)}
             letter(x) == letters[x - b.next_id + 2]
             ns1    == [x \in (DOMAIN b1.nodes) \cup made |->
                          LET n == IF x \in made THEN NewNode(x) ELSE b1.nodes[x]
                          IN  IF x + 1 \in made
                              THEN [n EXCEPT !.edges = EdgesInsert(@, letter(x), x + 1)]
                              ELSE n]
             fr1    == b1.unchecked_nodes
                       \o [j \in 1..(Len(letters) - 1) |->
                              [parent |-> id(j), letter |-> letters[j + 1], child |-> id(j + 1)]]
         IN  Builder(ns1, b1.minimized_nodes, fr1, b.next_id + Len(letters))

\* add marking the parent of the last frontier entry instead of its child
TerminalTarget_Parent(fr) == fr[Len(fr)].parent

\* the node add marks terminal: the child of the last frontier entry
TerminalTarget(fr) == fr[Len(fr)].child

\* what num_reachable leaves in self.count
StoredCount(count) == 0

RECURSIVE num_reachable(_, _, _, _)
RECURSIVE SumEdges(_, _, _, _, _)
\* the loop over self.edges: a child is entered only when Rc::get_mut gives
\* it, that is when this edge holds the only Rc to it
SumEdges(ns, reg, fr, n, keys) ==
    IF keys = {} THEN [ret |-> 0, nodes |-> ns]
    ELSE LET k    == CHOOSE x \in keys : TRUE
             c    == ns[n].edges[k]
             r    == IF StrongCount(ns, reg, fr, c) = 1 THEN num_reachable(ns, reg, fr, c)
                     ELSE [ret |-> 0, nodes |-> ns]
             rest == SumEdges(r.nodes, reg, fr, n, keys \ {k})
         IN  [ret |-> r.ret + rest.ret, nodes |-> rest.nodes]

\* DawgNode::num_reachable: the value returned and the nodes as it leaves them
num_reachable(ns, reg, fr, n) ==
    IF ns[n].count # 0 THEN [ret |-> ns[n].count, nodes |-> ns]
    ELSE LET s     == SumEdges(ns, reg, fr, n, DOMAIN ns[n].edges)
             count == (IF ns[n].terminal THEN 1 ELSE 0) + s.ret
         IN  [ret |-> count, nodes |-> [s.nodes EXCEPT ![n].count = StoredCount(count)]]

\* a string is lexicographically less than another (the ordering of the spec)
LexLess(a, b) ==
    \/ Len(a) < Len(b) /\ SubSeq(b, 1, Len(a)) = a
    \/ \E i \in 1..Len(a) : /\ i <= Len(b)
                            /\ SubSeq(a, 1, i - 1) = SubSeq(b, 1, i - 1)
                            /\ a[i] < b[i]

(***************************************************************************)
(* The thread-shared builder (sync.rs).                                    *)
(***************************************************************************)
SyncBuilder(ns, reg, fr, prev, id) ==
    [nodes |-> ns, minimized_nodes |-> reg, unchecked_nodes |-> fr,
     previous_word |-> prev, next_id |-> id, failure |-> "none"]

\* Dawg::new_sync
new_sync == SyncBuilder([n \in {root} |-> NewNode(root)], NoRegistry, <<>>, <<>>, 1)

\* Dawg::minimize_sync: the builders the call may end in.  The body of
\* `while start > end {}` is empty: once entered the loop never ends
\* (failure "hang").  What follows the loop runs once.
minimize_sync(b, down_to) ==
    LET fr    == b.unchecked_nodes
        start == MinusOneI8(Len(fr))
        end   == MinusOneI8(down_to)
    IN  (IF Overflows(Len(fr)) \/ Overflows(down_to)
         THEN {Failed(b, "overflow_panic")} ELSE {})
        \cup
        IF start > end THEN {Failed(b, "hang")}
        ELSE IF start < 0 \/ start >= Len(fr)
        THEN \* self.unchecked_nodes[start as usize]: index out of bounds
             {Failed(b, "index_panic")}
        ELSE LET tri   == fr[start + 1]
                 child == b.nodes[tri.child]
             IN  IF tri.child \in Range(child.edges)
                 THEN \* to_string locks the child again through its own edge
                      {Failed(b, "hang"), Failed(b, "lock_panic")}
                 ELSE {IF sig \in DOMAIN b.minimized_nodes
                       THEN LET ns1 == [b.nodes EXCEPT ![tri.parent].edges =
                                          EdgesInsert(@, tri.letter, b.minimized_nodes[sig])]
                                fr1 == SubSeq(fr, 1, Len(fr) - 1)
                            IN  IF tri.letter \in DOMAIN b.nodes[tri.parent].edges
                                THEN [b EXCEPT !.nodes = Collect(ns1, b.minimized_nodes, fr1),
                                               !.unchecked_nodes = fr1]
                                ELSE \* insert(..).unwrap() on None
                                     Failed([b EXCEPT !.nodes = ns1], "unwrap_panic")
                       ELSE b :
                       sig \in Signatures(child)}

\* the letter loop of add_sync: every turn creates a node and drops it,
\* inserts the node it stands on as its own child and pushes that node as
\* parent and as child
AddLettersSync(b, letters) ==
    IF letters = <<>> THEN b
    ELSE LET fr   == b.unchecked_nodes
             node == IF Len(fr) # 0 THEN fr[Len(fr)].child ELSE root
             ls   == {letters[j] : j \in 1..Len(letters)}
             ns1  == [b.nodes EXCEPT ![node].edges =
                        [k \in (DOMAIN @) \cup ls |-> IF k \in ls THEN node ELSE @[k]]]
             fr1  == fr \o [j \in 1..Len(letters) |->
                              [parent |-> node, letter |-> letters[j], child |-> node]]
         IN  [b EXCEPT !.nodes = Collect(ns1, b.minimized_nodes, fr1),
                       !.unchecked_nodes = fr1,
                       !.next_id = @ + Len(letters)]

\* Dawg::add_sync: the builders the call may end in.  Its common_prefix
\* loop compares the letters but never counts: common_prefix stays 0.
add_sync(b0, word) ==
    LET b == [b0 EXCEPT !.failure = "none"]
    IN  IF OrderViolation(b.previous_word, word) THEN {Failed(b, "order_panic")}
        ELSE LET word_vec      == split_to_vec(word)
                 common_prefix == 0
             IN  {IF m.failure # "none" THEN m
                  ELSE LET l  == AddLettersSync(m, NewLetters(word_vec, common_prefix))
                           fr == l.unchecked_nodes
                       IN  IF Len(fr) = 0
                           THEN \* self.unchecked_nodes.len() - 1 underflows
                                Failed(l, "index_panic")
                           ELSE [l EXCEPT !.nodes[fr[Len(fr)].child].terminal = TRUE,
                                          !.previous_word = word] :
                  m \in minimize_sync(b, common_prefix)}

\* what the last call did: less / same tell how the word handed to add
\* compared with previous_word
Result(op, res, less, same) == [op |-> op, res |-> res, less |-> less, same |-> same]

Init ==
    /\ nodes = [n \in {root} |-> NewNode(root)]
    /\ minimized_nodes = NoRegistry
    /\ unchecked_nodes = <<>>
    /\ previous_word = <<>>
    /\ next_id = 1
    /\ added = {}
    /\ finished = FALSE
    /\ late = 0
    /\ outcome = Result("new", "ok", FALSE, FALSE)
    /\ sync = new_sync

Current == Builder(nodes, minimized_nodes, unchecked_nodes, next_id)

\* Dawg::add.  outcome.less records whether the caller's word was below
\* previous_word; late counts the words accepted after finish.
AddUpTo(word, limit) ==
    /\ finished => late < MaxLate
    /\ LET res(r) == Result("add", r, LexLess(word, previous_word), word = previous_word)
       IN
       IF OrderViolation(previous_word, word)
       THEN /\ outcome' = res("order_panic")
            /\ UNCHANGED <<dawg, added, finished, late>>
       ELSE LET word_vec      == split_to_vec(word)
                prev_word_vec == split_to_vec(previous_word)
                common_prefix == CommonPrefix(word_vec, prev_word_vec)
            IN  /\ next_id + Len(NewLetters(word_vec, common_prefix)) <= limit + 1
                /\ \E m \in minimize(Current, common_prefix) :
                  LET b  == IF m.failure = "none"
                            THEN AddLetters(m, NewLetters(word_vec, common_prefix))
                            ELSE m
                      fr == b.unchecked_nodes
                  IN  IF b.failure # "none" \/ Len(fr) = 0
                      THEN \* minimize panicked, or
                           \* self.unchecked_nodes.len() - 1 underflows
                           /\ nodes' = b.nodes
                           /\ minimized_nodes' = b.minimized_nodes
                           /\ unchecked_nodes' = fr
                           /\ next_id' = b.next_id
                           /\ outcome' = res(IF b.failure # "none" THEN b.failure
                                             ELSE "index_panic")
                           /\ UNCHANGED <<previous_word, added, finished, late>>
                      ELSE /\ nodes' = [b.nodes EXCEPT ![TerminalTarget(fr)].terminal = TRUE]
                           /\ minimized_nodes' = b.minimized_nodes
                           /\ unchecked_nodes' = fr
                           /\ next_id' = b.next_id
                           /\ previous_word' = word
                           /\ added' = added \cup {word}
                           /\ late' = (IF finished THEN late + 1 ELSE late)
                           /\ outcome' = res("ok")
                           /\ UNCHANGED finished

\* Dawg::finish
Finish ==
    /\ UNCHANGED sync
    /\ \E m \in minimize(Current, 0) :
        IF m.failure # "none"
        THEN /\ nodes' = m.nodes
             /\ minimized_nodes' = m.minimized_nodes
             /\ unchecked_nodes' = m.unchecked_nodes
             /\ outcome' = Result("finish", m.failure, FALSE, FALSE)
             /\ UNCHANGED <<previous_word, next_id, added, finished, late>>
        ELSE LET r == num_reachable(m.nodes, m.minimized_nodes, m.unchecked_nodes, root)
             IN  /\ nodes' = Collect(r.nodes, NoRegistry, <<>>)
                 /\ minimized_nodes' = NoRegistry
                 /\ unchecked_nodes' = <<>>
                 /\ finished' = TRUE
                 /\ outcome' = Result("finish", "ok", FALSE, FALSE)
                 /\ UNCHANGED <<previous_word, next_id, added, late>>

Add(word) == AddUpTo(word, MaxNodes) /\ UNCHANGED sync

AddWide(word) == AddUpTo(word, WideNodes) /\ UNCHANGED sync

Next ==
    \/ \E word \in Words : Add(word)
    \/ Finish

Spec == Init /\ [][Next]_vars

NextWide ==
    \/ \E word \in Words : AddWide(word)
    \/ Finish

SpecWide == Init /\ [][NextWide]_vars

AddLong(word) == AddUpTo(word, LongNodes) /\ UNCHANGED sync

\* Dawg::add_sync on the thread-shared builder; a call that hangs is the last
AddSync(word) ==
    /\ sync.failure # "hang"
    /\ \E r \in add_sync(sync, word) : sync' = r

\* the same word handed to both builders
AddBoth(word) == AddUpTo(word, MaxNodes) /\ AddSync(word)

NextBoth == \E word \in Words : AddBoth(word)

SpecBoth == Init /\ [][NextBoth]_vars

\* the builder under construction, on long words
NextLong == \E word \in LongWords : AddLong(word)

SpecLong == Init /\ [][NextLong]_vars

(***************************************************************************)
(* The queries.  They read the builder and change nothing; each is the set *)
(* of results the call may give, one per order in which the HashMaps it    *)
(* reads may be iterated.                                                  *)
(***************************************************************************)
RECURSIVE FindIn(_, _, _, _, _)
\* the loop `for i in 0..word.len()` of find (and of find_sync, the same
\* text) from its turn i, at node, on the nodes ns
FindIn(ns, node, word, i, case_sensitive) ==
    LET word_vec == split_to_vec(word)
        keys     == DOMAIN ns[node].edges
    IN  IF i >= ByteLen(word) THEN {[kind |-> "some", node |-> node, lookups |-> i]}
        ELSE IF i + 1 > Len(word_vec)
        THEN \* word_vec[i]: index out of bounds
             {[kind |-> "panic", node |-> node, lookups |-> i]}
        ELSE LET letter == word_vec[i + 1]
             IN  IF case_sensitive
                 THEN IF letter \in keys
                      THEN FindIn(ns, ns[node].edges[letter], word, i + 1, case_sensitive)
                      ELSE {[kind |-> "none", node |-> node, lookups |-> i + 1]}
                 ELSE LET hits == {k \in keys : Upper(k) = Upper(letter)}
                      IN  \* position() gives the first hit in iteration order
                          IF hits = {}
                          THEN {[kind |-> "none", node |-> node, lookups |-> i + 1]}
                          ELSE UNION {FindIn(ns, ns[node].edges[k], word, i + 1, case_sensitive) :
                                        k \in hits}

FindFrom(node, word, i, case_sensitive) == FindIn(nodes, node, word, i, case_sensitive)

\* Dawg::find
find(word, case_sensitive) == FindFrom(root, word, 0, case_sensitive)

\* Dawg::is_word: "found" for Some(word), "none" for None
is_word(word, case_sensitive) ==
    {IF r.kind = "some" THEN (IF nodes[r.node].terminal THEN "found" ELSE "none") ELSE r.kind :
        r \in find(word, case_sensitive)}

\* Dawg::lookup: "found" for Some(node), "none" for None
lookup(word, case_sensitive) ==
    {IF r.kind = "some" THEN (IF nodes[r.node].terminal THEN "found" ELSE "none") ELSE r.kind :
        r \in find(word, case_sensitive)}

\* Dawg::find_sync
find_sync(word, case_sensitive) == FindIn(sync.nodes, root, word, 0, case_sensitive)

\* Dawg::is_word_sync
is_word_sync(word, case_sensitive) ==
    {IF r.kind = "some" THEN (IF sync.nodes[r.node].terminal THEN "found" ELSE "none")
     ELSE r.kind : r \in find_sync(word, case_sensitive)}

\* Dawg::lookup_sync
lookup_sync(word, case_sensitive) ==
    {IF r.kind = "some" THEN (IF sync.nodes[r.node].terminal THEN "found" ELSE "none")
     ELSE r.kind : r \in find_sync(word, case_sensitive)}

TypeOK ==
    /\ \A n \in DOMAIN nodes : nodes[n].id = n /\ nodes[n].count \in Nat
    /\ previous_word \in Words
    /\ added \subseteq Words

(***************************************************************************)
(* The vocabulary of the claims, defined on the graph itself and not       *)
(* through the query code.                                                 *)
(***************************************************************************)
\* the characters of a query: those of the words and their upper-case forms
QueryAlphabet == Alphabet \cup {Upper(c) : c \in Alphabet}

\* the strings handed to the queries: one character longer than any word
Queries == StringsUpTo(QueryAlphabet, MaxLen + 1)

UpperStr(s) == [i \in 1..Len(s) |-> Upper(s[i])]

\* add calls in sorted order, then finish, and no word accepted since
Sealed == finished /\ late = 0

Reachable == ReachFrom(nodes, {}, {root})

RECURSIVE Walk(_, _)
\* the node the labels of s lead to from n, or -1 when a label is missing
Walk(n, s) ==
    IF s = <<>> THEN n
    ELSE IF Head(s) \in DOMAIN nodes[n].edges THEN Walk(nodes[n].edges[Head(s)], Tail(s))
    ELSE -1

Accepts(s) == Walk(root, s) # -1 /\ nodes[Walk(root, s)].terminal

\* the words the graph accepts
Language == {q \in Queries : Accepts(q)}

RECURSIVE RightLang(_)
\* the suffixes a node accepts
RightLang(n) ==
    (IF nodes[n].terminal THEN {<<>>} ELSE {})
    \cup UNION {{<<k>> \o t : t \in RightLang(nodes[n].edges[k])} : k \in DOMAIN nodes[n].edges}

IsPrefix(a, b) == Len(a) <= Len(b) /\ SubSeq(b, 1, Len(a)) = a

\* the nodes of the uncompressed trie of ws: its prefixes, the root included
TrieNodes(ws) == {<<>>} \cup UNION {{SubSeq(w, 1, k) : k \in 0..Len(w)} : w \in ws}

\* the leaves of that trie: the words that are a proper prefix of no other word
TrieLeaves(ws) == {w \in ws : \A v \in ws : IsPrefix(w, v) => v = w}

Suffix(w, k) == SubSeq(w, Len(w) - k + 1, Len(w))

\* two words share a suffix of length >= 1 that follows different prefixes
SharedSuffix(ws) ==
    \E w \in ws, v \in ws :
        /\ w # v
        /\ \E k \in 1..Len(w) : k <= Len(v) /\ Suffix(w, k) = Suffix(v, k)

(***************************************************************************)
(* The claims.                                                             *)
(***************************************************************************)
\* C1: after sorted adds of non-empty words and finish, the case-sensitive
\* word query reports found for every word of the list and not-found for
\* every other string.
C1_WordQueryExact ==
    Sealed => \A q \in Queries :
                is_word(q, TRUE) = (IF q \in added THEN {"found"} ELSE {"none"})

\* C1, on the words and queries whose characters take one byte each: the
\* word query is exact there.
WordQueryExactOneByte ==
    Sealed => \A q \in Queries :
                ByteLen(q) = Len(q) =>
                    is_word(q, TRUE) = (IF q \in added THEN {"found"} ELSE {"none"})

\* C2: the prefix query reports found for every non-empty string whose
\* characters the traversal from the root consumes, terminal node or not
\* (stated on the strings of one-byte characters, on which find never fails).
C2_PrefixQueryIgnoresTerminal ==
    \A q \in Queries \ {<<>>} :
        (ByteLen(q) = Len(q) /\ Walk(root, q) # -1) => lookup(q, TRUE) = {"found"}

\* C3: an add call with a word below previous_word is rejected as an
\* ordering violation and changes no field of the builder.
C3_MisorderedAddRejected ==
    [][(outcome'.op = "add" /\ outcome'.less)
          => (outcome'.res = "order_panic" /\ UNCHANGED dawg)]_vars

C3_Witness ==
    /\ outcome = Result("add", "order_panic", TRUE, FALSE)
    /\ Len(unchecked_nodes) > 0
    /\ DOMAIN minimized_nodes # {}

\* C4: after sorted adds and finish the count stored on the root is the
\* number of distinct words added.
C4_RootCountIsWordCount ==
    Sealed => nodes[root].count = Cardinality(added)

\* C5: after sorted adds and finish the graph is minimal: two reachable
\* nodes that accept the same suffixes are the same node.
C5_Minimal ==
    Sealed => \A n \in Reachable, m \in Reachable : RightLang(n) = RightLang(m) => n = m

C7_CaseInsensitiveFinds ==
    \A w \in Queries :
        "found" \in is_word(w, TRUE) => is_word(UpperStr(w), FALSE) = {"found"}

\* C7, the other way round: the case-sensitive word query for w is found
\* whenever the case-insensitive one for its upper-cased form is found.
CaseSensitiveFinds ==
    \A w \in Queries :
        "found" \in is_word(UpperStr(w), FALSE) => is_word(w, TRUE) = {"found"}

\* C8: once finish has been called every add call is reported as an error
\* and leaves the set of accepted words as it was.
C8_SealedAfterFinish ==
    [][(finished /\ outcome'.op = "add")
          => (outcome'.res # "ok" /\ Language' = Language)]_vars

\* C9: the empty word is never found, by either query, in any builder
\* state, the root is never terminal, no query of it fails, and finish on a
\* builder nothing was added to completes and leaves the root count 0.
C9_EmptyCases ==
    /\ \A cs \in BOOLEAN : is_word(<<>>, cs) = {"none"} /\ lookup(<<>>, cs) = {"none"}
    /\ ~nodes[root].terminal
    /\ (finished /\ added = {}) => nodes[root].count = 0
    /\ outcome.op = "finish" => outcome.res = "ok"

C9_Witness ==
    /\ outcome = Result("finish", "ok", FALSE, FALSE)
    /\ added = {}
    /\ nodes[root].count = 0
    /\ is_word(<<>>, TRUE) = {"none"}

\* C10: a query of a non-empty string never fails and takes one transition
\* lookup per character, also when a character takes more than one byte.
C10_QueryNeverFails ==
    \A q \in Queries \ {<<>>} : \A cs \in BOOLEAN : \A r \in find(q, cs) :
        /\ r.kind # "panic"
        /\ r.lookups <= Len(q)
        /\ r.kind = "some" => r.lookups = Len(q)

\* C11: before finish the frontier is the path of previous_word in creation
\* order: one entry per character, the labels spell previous_word, the first
\* parent is the root, each child is the next parent, each parent's
\* transition on the label points to the child, the last child is terminal.
C11_FrontierIsPath ==
    ~finished =>
        LET fr == unchecked_nodes
            n  == Len(fr)
        IN  /\ n = Len(previous_word)
            /\ \A i \in 1..n :
                  /\ fr[i].letter = previous_word[i]
                  /\ fr[i].parent = (IF i = 1 THEN root ELSE fr[i - 1].child)
                  /\ fr[i].letter \in DOMAIN nodes[fr[i].parent].edges
                  /\ nodes[fr[i].parent].edges[fr[i].letter] = fr[i].child
            /\ n > 0 => nodes[fr[n].child].terminal

\* C12: minimize(d) on a frontier of n entries removes exactly the entries
\* deeper than d: it leaves the first min(d, n) entries in their order,
\* registers none of their children and redirects no transition to them.
C12_MinimizeFrame ==
    \A d \in 0..MaxLen : \A m \in minimize(Current, d) :
        LET fr   == unchecked_nodes
            keep == IF d < Len(fr) THEN d ELSE Len(fr)
        IN  /\ m.failure = "none"
            /\ m.unchecked_nodes = SubSeq(fr, 1, keep)
            /\ \A i \in 1..keep :
                  /\ fr[i].child \in Range(m.minimized_nodes)
                        => fr[i].child \in Range(minimized_nodes)
                  /\ m.nodes[fr[i].parent].edges[fr[i].letter]
                        = nodes[fr[i].parent].edges[fr[i].letter]

\* what C13 calls the signature of a node: its terminal flag together with
\* its set of (label, child id) pairs
FlagAndEdges(n) == <<nodes[n].terminal, nodes[n].edges>>

\* C13: before finish no two distinct nodes held in the registry have the
\* same terminal flag and the same set of (label, child id) pairs.
C13_RegistryDistinct ==
    ~finished =>
        \A n \in Range(minimized_nodes), m \in Range(minimized_nodes) :
            FlagAndEdges(n) = FlagAndEdges(m) => n = m

\* C14: the signature of a node depends on its terminal flag and its set of
\* (label, child id) pairs only: whatever order the edges are iterated in,
\* to_string gives one and the same string.  Stated of the nodes minimize
\* formats, the children of the frontier entries.
C14_SignatureOrderFree ==
    \A i \in DOMAIN unchecked_nodes :
        Cardinality(Signatures(nodes[unchecked_nodes[i].child])) = 1

\* the builders minimize(0) may be in when its loop reaches the turn j, the
\* turns before it done
AtTurn(j) == MinimizeLoop({Current}, MinusOneI8(Len(unchecked_nodes)), j)

\* C15: minimize works from the tail of the frontier to its head: in the
\* turn that formats the child of an entry, that entry is the last one of the
\* frontier and every transition leaving the child points to a node the
\* registry holds.
C15_ChildrenCanonicalFirst ==
    \A j \in 0..MinusOneI8(Len(unchecked_nodes)) : \A b \in AtTurn(j) :
        (b.failure = "none" /\ j < Len(b.unchecked_nodes)) =>
            LET child == b.nodes[b.unchecked_nodes[j + 1].child]
            IN  /\ j + 1 = Len(b.unchecked_nodes)
                /\ \A k \in DOMAIN child.edges :
                      child.edges[k] \in Range(b.minimized_nodes)

C18_VariantsAgree ==
    /\ outcome.op = "add" => sync.failure = (IF outcome.res = "ok" THEN "none" ELSE outcome.res)
    /\ \A q \in Queries : \A cs \in BOOLEAN :
          /\ is_word_sync(q, cs) = is_word(q, cs)
          /\ lookup_sync(q, cs) = lookup(q, cs)

\* C19: before finish an add call whose word is not below previous_word
\* never ends in an index or arithmetic failure, the empty word on an empty
\* frontier included, and leaves the root non-terminal.
C19_OrderedAddNeverFails ==
    (~finished /\ outcome.op = "add" /\ ~outcome.less)
        => /\ outcome.res \notin {"index_panic", "overflow_panic"}
           /\ ~nodes[root].terminal

\* C20: the index arithmetic of minimize is exact for a frontier of any
\* length: start is the index of the last entry, end is down_to - 1, nothing
\* overflows, and minimize(0) empties the frontier.
C20_IndexArithmeticExact ==
    LET n == Len(unchecked_nodes)
    IN  /\ ~Overflows(n) /\ MinusOneI8(n) = n - 1
        /\ \A d \in {0, n} : ~Overflows(d) /\ MinusOneI8(d) = d - 1
        /\ \A m \in minimize(Current, 0) : m.failure = "none" /\ m.unchecked_nodes = <<>>

====
